---- MODULE Spec2Model ----
(***************************************************************************)
(* Model of dalib/vision/datasets/segmentation/segmentation_list.py :      *)
(* the SegmentationList dataset (construction from two list files, the     *)
(* per-sample pipeline __getitem__, and the decoders).                     *)
(*                                                                         *)
(* Strings that the code inspects (lines of the list files, paths) are     *)
(* sequences of code points (ord of each character: 10 is "\n", 13 "\r",   *)
(* 32 " ", 47 "/", 97 "a").  An optional value is a sequence of            *)
(* length 0 (None) or 1.  numpy arrays are nested sequences: an image is   *)
(* H x W x 3 or 3 x H x W, a label is H x W.  heap holds the arrays the    *)
(* caller and the workers can reach, by buffer number, each with the       *)
(* number of decode_input calls made on it.  Pixel values and means are    *)
(* whole numbers.                                                          *)
(***************************************************************************)
EXTENDS Integers, Sequences, FiniteSets, TLC

VARIABLES files, args, self, heap, ret, first, wk

vars == <<files, args, self, heap, ret, first, wk>>

(* ------------------------------ bounds --------------------------------- *)
\* height and width of the stored images
ImgH == 2
ImgW == 2
\* fetch indices range over -(MaxIndex+1) .. MaxIndex
MaxIndex == 2
\* raw label ids and train ids range over 0 .. MaxId (and 255)
MaxId == 2
\* number of classes ranges over 1 .. MaxClasses
MaxClasses == 2
\* the heap holds at most MaxBufs arrays
MaxBufs == 4
\* the value a caller writes into the arrays it holds
MaxVal == 9
\* decode_input is called at most MaxDecodes times in a run
MaxDecodes == 2
\* number of concurrent workers
NWorkers == 2

None == <<>>
Some(x) == <<x>>

(* ------------------------- Python / numpy helpers ---------------------- *)
\* the characters str.strip() removes: those for which str.isspace() holds
\* (\t \n \v \f \r, 28..31, space, U+0085, U+00A0, U+1680, U+2000..U+200A,
\* U+2028, U+2029, U+202F, U+205F, U+3000)
Whitespace ==
  (9..13) \cup (28..32) \cup {133, 160, 5760} \cup (8192..8202)
  \cup {8232, 8233, 8239, 8287, 12288}

RECURSIVE lstrip(_)
lstrip(s) == IF s # <<>> /\ s[1] \in Whitespace THEN lstrip(Tail(s)) ELSE s

RECURSIVE rstrip(_)
rstrip(s) ==
  IF s # <<>> /\ s[Len(s)] \in Whitespace THEN rstrip(SubSeq(s, 1, Len(s) - 1)) ELSE s

\* str.strip() of lines 58 and 68
strip(s) == rstrip(lstrip(s))

\* the lines of a file opened in text mode (universal newlines): "\n", "\r"
\* and "\r\n" each end a line and are read as "\n"
RECURSIVE readlines_from(_, _)
readlines_from(content, cur) ==
  IF content = <<>> THEN (IF cur = <<>> THEN <<>> ELSE <<cur>>)
  ELSE IF content[1] = 10
       THEN <<Append(cur, 10)>> \o readlines_from(Tail(content), <<>>)
  ELSE IF content[1] = 13
       THEN <<Append(cur, 10)>> \o
            readlines_from(IF Len(content) >= 2 /\ content[2] = 10
                           THEN Tail(Tail(content)) ELSE Tail(content), <<>>)
  ELSE readlines_from(Tail(content), Append(cur, content[1]))

\* f.readlines(): the lines of the file, each with its newline
readlines(content) == readlines_from(content, <<>>)

\* [line.strip() for line in f.readlines()], or IOError when open() fails
parse_data_file(fs, file_name) ==
  IF file_name \notin DOMAIN fs.lists THEN [status |-> "IOError", list |-> <<>>]
  ELSE LET lines == readlines(fs.lists[file_name])
       IN [status |-> "ok", list |-> [i \in 1..Len(lines) |-> strip(lines[i])]]

parse_label_file(fs, file_name) ==
  IF file_name \notin DOMAIN fs.lists THEN [status |-> "IOError", list |-> <<>>]
  ELSE LET lines == readlines(fs.lists[file_name])
       IN [status |-> "ok", list |-> [i \in 1..Len(lines) |-> strip(lines[i])]]

\* posixpath.join of two components
path_join(a, b) ==
  IF b # <<>> /\ b[1] = 47 THEN b
  ELSE IF a = <<>> \/ a[Len(a)] = 47 THEN a \o b
  ELSE a \o <<47>> \o b

\* os.path.join(self.root, folder, name)
os_path_join(root, folder, name) == path_join(path_join(root, folder), name)

list_has_from_zero(lst, index) == 0 <= index /\ index < Len(lst)

\* list[index] of Python: does the index exist, and which element it names
list_has(lst, index) == -Len(lst) <= index /\ index < Len(lst)
list_get(lst, index) == IF index >= 0 THEN lst[index + 1] ELSE lst[Len(lst) + index + 1]

\* Image.convert('RGB'): a grey image gets three equal channels
convert_RGB(im) ==
  IF im.mode = "RGB" THEN im.px
  ELSE [h \in DOMAIN im.px |-> [w \in DOMAIN im.px[h] |-> <<im.px[h][w], im.px[h][w], im.px[h][w]>>]]

\* self.transforms(image, label): the transform collaborator, applied jointly
apply_transforms(t, image, label) ==
  IF t = "hflip"
  THEN << [h \in DOMAIN image |-> [w \in DOMAIN image[h] |-> image[h][Len(image[h]) + 1 - w]]],
          [h \in DOMAIN label |-> [w \in DOMAIN label[h] |-> label[h][Len(label[h]) + 1 - w]]] >>
  ELSE <<image, label>>

\* image[:, :, ::-1]
reverse_channels(hwc) ==
  [h \in DOMAIN hwc |-> [w \in DOMAIN hwc[h] |-> [c \in 1..3 |-> hwc[h][w][4 - c]]]]

\* image.transpose((2, 0, 1)): H x W x 3 to 3 x H x W
transpose_201(hwc) ==
  [c \in 1..3 |-> [h \in DOMAIN hwc |-> [w \in DOMAIN hwc[h] |-> hwc[h][w][c]]]]

\* image.transpose((1, 2, 0)): 3 x H x W to H x W x 3
transpose_120(chw) ==
  [h \in DOMAIN chw[1] |-> [w \in DOMAIN chw[1][h] |-> [c \in 1..3 |-> chw[c][h][w]]]]

\* image -= self.mean, broadcast over the last axis
sub_mean(hwc, mean) ==
  [h \in DOMAIN hwc |-> [w \in DOMAIN hwc[h] |-> [c \in 1..3 |-> hwc[h][w][c] - mean[c]]]]

\* image += self.mean, broadcast over the last axis
add_mean(hwc, mean) ==
  [h \in DOMAIN hwc |-> [w \in DOMAIN hwc[h] |-> [c \in 1..3 |-> hwc[h][w][c] + mean[c]]]]

\* astype(np.uint8) of an integer array (line 127): the value modulo 256
astype_uint8(x) == x % 256

\* what a build may give for a float outside 0..255: the whole part reduced
\* modulo 256, or the nearest end of the range
CastModes == {"wrap", "saturate"}

\* astype(np.uint8) of a whole-valued float32 (line 115): exact on 0..255,
\* undefined outside it
astype_uint8_float(x, cast) ==
  IF 0 <= x /\ x <= 255 THEN x
  ELSE IF cast = "wrap" THEN x % 256
  ELSE IF x < 0 THEN 0 ELSE 255

\* self.ignore_label * np.ones(label.shape)
ones_times(label, value) == [h \in DOMAIN label |-> [w \in DOMAIN label[h] |-> value]]

remap_pair_again(label, label_copy, k, v) ==
  [h \in DOMAIN label |-> [w \in DOMAIN label[h] |->
      IF label[h][w] = k \/ label_copy[h][w] = k THEN v ELSE label_copy[h][w]]]

\* label_copy[label == k] = v
remap_pair(label, label_copy, k, v) ==
  [h \in DOMAIN label |-> [w \in DOMAIN label[h] |->
      IF label[h][w] = k THEN v ELSE label_copy[h][w]]]

RECURSIVE remap_items(_, _, _)
remap_items(label, label_copy, items) ==
  IF items = <<>> THEN label_copy
  ELSE remap_items(label, remap_pair(label, label_copy, items[1][1], items[1][2]), Tail(items))

\* is the optional dict truthy (neither None nor empty)
truthy(id_to_train_id) == id_to_train_id # None /\ id_to_train_id[1] # <<>>

\* lines 85-88: the remapped label
remap_label(label, ignore_label, id_to_train_id) ==
  IF truthy(id_to_train_id)
  THEN remap_items(label, ones_times(label, ignore_label), id_to_train_id[1])
  ELSE ones_times(label, ignore_label)

\* lines 91-95: BGR order, normalisation, channel-first layout
normalize_image(image, mean) ==
  LET bgr == reverse_channels(image)
  IN transpose_201(IF mean # None THEN sub_mean(bgr, mean[1]) ELSE bgr)

Failure(status) == [status |-> status, image |-> <<>>, label |-> <<>>]

\* __getitem__ as a function of the object, the files and the index
getitem(s, fs, index) ==
  IF ~list_has(s.data_list, index) \/ ~list_has(s.label_list, index)
  THEN Failure("IndexError")
  ELSE LET ipath == os_path_join(s.root, s.data_folder, list_get(s.data_list, index))
           lpath == os_path_join(s.root, s.label_folder, list_get(s.label_list, index))
       IN IF ipath \notin DOMAIN fs.images \/ lpath \notin DOMAIN fs.labels
          THEN Failure("IOError")
          ELSE IF s.transforms = "None" THEN Failure("TypeError")
          ELSE LET tr == apply_transforms(s.transforms, convert_RGB(fs.images[ipath]),
                                          fs.labels[lpath])
               IN [status |-> "ok",
                   image  |-> normalize_image(tr[1], s.mean),
                   label  |-> remap_label(tr[2], s.ignore_label, s.id_to_train_id)]

\* the image handed to the pipeline by line 80, for comparison with decode_input
transformed_image(s, fs, index) ==
  apply_transforms(s.transforms,
     convert_RGB(fs.images[os_path_join(s.root, s.data_folder, list_get(s.data_list, index))]),
     fs.labels[os_path_join(s.root, s.label_folder, list_get(s.label_list, index))])[1]

\* the label handed to the pipeline by line 80
transformed_label(s, fs, index) ==
  apply_transforms(s.transforms,
     convert_RGB(fs.images[os_path_join(s.root, s.data_folder, list_get(s.data_list, index))]),
     fs.labels[os_path_join(s.root, s.label_folder, list_get(s.label_list, index))])[2]

decode_input_buffer_copy(image, mean) == image

\* the caller's array after decode_input: += acts through the transposed view
decode_input_buffer(image, mean) ==
  transpose_201(add_mean(transpose_120(image), mean))

decode_input_image_unreversed(image, mean, cast) ==
  LET hwc == add_mean(transpose_120(image), mean)
  IN [h \in DOMAIN hwc |-> [w \in DOMAIN hwc[h] |->
        [c \in 1..3 |-> astype_uint8_float(hwc[h][w][c], cast)]]]

\* the picture decode_input returns
decode_input_image(image, mean, cast) ==
  LET rgb == reverse_channels(add_mean(transpose_120(image), mean))
  IN [h \in DOMAIN rgb |-> [w \in DOMAIN rgb[h] |->
        [c \in 1..3 |-> astype_uint8_float(rgb[h][w][c], cast)]]]

\* decode_input: TypeError at line 113 when mean is None
decode_input(image, mean, cast) ==
  IF mean = None THEN [status |-> "TypeError", buffer |-> image, out |-> None]
  ELSE [status |-> "ok",
        buffer |-> decode_input_buffer(image, mean[1]),
        out    |-> Some(decode_input_image(image, mean[1], cast))]

keep_ignore(target, num_classes) == target

\* target[target == 255] = self.num_classes
replace_ignore(target, num_classes) ==
  [h \in DOMAIN target |-> [w \in DOMAIN target[h] |->
      IF target[h][w] = 255 THEN num_classes ELSE target[h][w]]]

decode_target_buffer_inplace(target, num_classes) == replace_ignore(target, num_classes)

\* the caller's array after decode_target: line 124 works on a copy
decode_target_buffer(target, num_classes) == target

\* numpy's table[v]: which indices exist (negative ones count from the end)
table_has(table, v) == -Len(table) <= v /\ v < Len(table)

decode_target(target, num_classes, train_id_to_color) ==
  LET t == replace_ignore(target, num_classes)
  IN IF train_id_to_color = None
        \/ \E h \in DOMAIN t : \E w \in DOMAIN t[h] : ~table_has(train_id_to_color[1], t[h][w])
     THEN [status |-> "IndexError", buffer |-> decode_target_buffer(target, num_classes),
           out |-> None]
     ELSE [status |-> "ok", buffer |-> decode_target_buffer(target, num_classes),
           out |-> Some([h \in DOMAIN t |-> [w \in DOMAIN t[h] |->
                     [c \in 1..3 |-> astype_uint8(list_get(train_id_to_color[1], t[h][w])[c])]]])]

\* collect_image_paths
collect_image_paths(s) ==
  [i \in 1..Len(s.data_list) |-> os_path_join(s.root, s.data_folder, s.data_list[i])]


NewObject(a, data_list, label_list) ==
  [root |-> a.root, classes |-> a.classes,
   data_list_file |-> a.data_list_file, label_list_file |-> a.label_list_file,
   data_folder |-> a.data_folder, label_folder |-> a.label_folder,
   mean |-> a.mean, ignore_label |-> 255,
   id_to_train_id |-> a.id_to_train_id, train_id_to_color |-> a.train_id_to_color,
   data_list |-> data_list, label_list |-> label_list, transforms |-> a.transforms]

construct_checking_lengths(a, fs) ==
  LET d == parse_data_file(fs, a.data_list_file)
      l == parse_label_file(fs, a.label_list_file)
  IN IF d.status # "ok" \/ l.status # "ok" THEN [status |-> "IOError", obj |-> None]
     ELSE IF Len(d.list) # Len(l.list) THEN [status |-> "ValueError", obj |-> None]
     ELSE [status |-> "ok", obj |-> Some(NewObject(a, d.list, l.list))]

\* __init__: the fields of the new object, or IOError when a list file cannot be opened
construct(a, fs) ==
  LET d == parse_data_file(fs, a.data_list_file)
      l == parse_label_file(fs, a.label_list_file)
  IN IF d.status # "ok" \/ l.status # "ok" THEN [status |-> "IOError", obj |-> None]
     ELSE [status |-> "ok", obj |-> Some(NewObject(a, d.list, l.list))]

(* --------------------------- the environment --------------------------- *)
\* "r", "img", "gt"
Root == <<114>>
DataFolder == <<105, 109, 103>>
LabelFolder == <<103, 116>>

FetchIndices == (0 - (MaxIndex + 1)) .. MaxIndex

\* contents of the list files: "a\nb\n"; "a\n"; "b \r\f\r\na" (a trailing
\* blank, a line ended by "\r", a line holding only a form feed and ended by
\* "\r\n", a last line without newline); no line
TwoLines == <<97, 10, 98, 10>>
OneLine == <<97, 10>>
BlankLine == <<98, 32, 13, 12, 13, 10, 97>>
NoLine == <<>>

\* (image list, label list): aligned, label list shorter, label list longer,
\* lists holding an empty line, empty lists
ListPairs ==
  { <<TwoLines, TwoLines>>, <<TwoLines, OneLine>>, <<OneLine, TwoLines>>,
    <<BlankLine, BlankLine>>, <<NoLine, NoLine>> }

\* the picture files: "a" (97) is a colour picture, "b" a grey one of one row;
\* the samples are spread over 0 .. 255
StoredImages ==
  (os_path_join(Root, DataFolder, <<97>>) :>
     [mode |-> "RGB",
      px |-> [h \in 1..ImgH |-> [w \in 1..ImgW |->
                [c \in 1..3 |-> (37 * (2 * h + w + 3 * c)) % 256]]]])
  @@
  (os_path_join(Root, DataFolder, <<98>>) :>
     [mode |-> "L", px |-> [h \in 1..1 |-> [w \in 1..ImgW |-> (90 * (h + 2 * w)) % 256]]])

RawIds == (0 .. MaxId) \cup {255}

\* a label picture in which the raw ids follow each other, starting at `shift`
LabelPicture(H, W, ids, shift) ==
  [h \in 1..H |-> [w \in 1..W |-> ids[(((h - 1) * W + (w - 1) + shift) % Len(ids)) + 1]]]

RawIdSeq == [i \in 1..(MaxId + 2) |-> IF i = MaxId + 2 THEN 255 ELSE i - 1]

StoredLabels(shift) ==
  (os_path_join(Root, LabelFolder, <<97>>) :> LabelPicture(ImgH, ImgW, RawIdSeq, shift))
  @@
  (os_path_join(Root, LabelFolder, <<98>>) :> LabelPicture(1, ImgW, RawIdSeq, shift + 1))

FileSystem(dl, ll, shift) ==
  [lists  |-> ("images.txt" :> dl) @@ ("labels.txt" :> ll),
   images |-> StoredImages,
   labels |-> StoredLabels(shift)]

\* "c1", "c2", ...
ClassNames(n) == [i \in 1..n |-> <<99, 48 + i>>]

Palette(n) == [i \in 1..n |-> <<(80 * i) % 256, (50 * i + 5) % 256, 255 - i>>]

Arguments(dfile, lfile, n, mean, idmap, colors, t) ==
  [root |-> Root, classes |-> ClassNames(n), data_list_file |-> dfile,
   label_list_file |-> lfile, data_folder |-> DataFolder, label_folder |-> LabelFolder,
   mean |-> mean, id_to_train_id |-> idmap, train_id_to_color |-> colors, transforms |-> t]

NoCall == [op |-> "new", arg |-> 0, status |-> "ok", img |-> 0, lbl |-> 0, out |-> None]

Idle ==
  [pc |-> "idle", index |-> 0, status |-> "", items |-> <<>>,
   image |-> 0, label |-> 0, label_copy |-> 0, out_image |-> 0, out_label |-> 0]

Fresh ==
  /\ self = None
  /\ ret = NoCall
  /\ first = [i \in FetchIndices |-> None]
  /\ wk = [w \in 1..NWorkers |-> Idle]

(* ------------------------------ the calls ------------------------------ *)
Result(op, arg, status, img, lbl, out) ==
  [op |-> op, arg |-> arg, status |-> status, img |-> img, lbl |-> lbl, out |-> out]

\* SegmentationList(...)
Call_init ==
  /\ ret.op = "new"
  /\ LET c == construct(args, files)
     IN /\ self' = c.obj
        /\ ret' = Result("__init__", 0, c.status, 0, 0, None)
  /\ UNCHANGED <<files, args, heap, first, wk>>

\* len(dataset)
Call_len ==
  /\ self # None
  /\ ret' = Result("__len__", 0, "ok", 0, 0, Some(Len(self[1].data_list)))
  /\ UNCHANGED <<files, args, self, heap, first, wk>>

\* dataset.num_classes
Call_num_classes ==
  /\ self # None
  /\ ret' = Result("num_classes", 0, "ok", 0, 0, Some(Len(self[1].classes)))
  /\ UNCHANGED <<files, args, self, heap, first, wk>>

\* dataset.collect_image_paths()
Call_collect_image_paths ==
  /\ self # None
  /\ ret' = Result("collect_image_paths", 0, "ok", 0, 0, Some(collect_image_paths(self[1])))
  /\ UNCHANGED <<files, args, self, heap, first, wk>>

Call_getitem_cached(index) ==
  /\ self # None
  /\ LET r == getitem(self[1], files, index)
     IN IF r.status = "ok" /\ first[index] # None
        THEN /\ ret' = Result("__getitem__", index, "ok",
                              first[index][1].img, first[index][1].lbl, None)
             /\ UNCHANGED <<heap, first>>
        ELSE IF r.status = "ok"
        THEN /\ Len(heap) + 2 <= MaxBufs
             /\ heap' = heap \o << [kind |-> "image", data |-> r.image, decoded |-> 0],
                                   [kind |-> "label", data |-> r.label, decoded |-> 0] >>
             /\ ret' = Result("__getitem__", index, "ok", Len(heap) + 1, Len(heap) + 2, None)
             /\ first' = [first EXCEPT ![index] =
                            Some([img |-> Len(heap) + 1, lbl |-> Len(heap) + 2,
                                  image |-> r.image, label |-> r.label])]
        ELSE /\ ret' = Result("__getitem__", index, r.status, 0, 0, None)
             /\ UNCHANGED <<heap, first>>
  /\ UNCHANGED <<files, args, self, wk>>

Call_getitem_popping(index) ==
  /\ self # None
  /\ LET r == getitem(self[1], files, index)
     IN IF r.status = "ok"
        THEN /\ Len(heap) + 2 <= MaxBufs
             /\ heap' = heap \o << [kind |-> "image", data |-> r.image, decoded |-> 0],
                                   [kind |-> "label", data |-> r.label, decoded |-> 0] >>
             /\ ret' = Result("__getitem__", index, "ok", Len(heap) + 1, Len(heap) + 2, None)
             /\ first' = first
             /\ self' = Some([self[1] EXCEPT !.data_list = Tail(@)])
        ELSE /\ ret' = Result("__getitem__", index, r.status, 0, 0, None)
             /\ UNCHANGED <<heap, first, self>>
  /\ UNCHANGED <<files, args, wk>>

\* dataset[index]: the two arrays returned are new buffers of the heap
Call_getitem(index) ==
  /\ self # None
  /\ LET r == getitem(self[1], files, index)
     IN IF r.status = "ok"
        THEN /\ Len(heap) + 2 <= MaxBufs
             /\ heap' = heap \o << [kind |-> "image", data |-> r.image, decoded |-> 0],
                                   [kind |-> "label", data |-> r.label, decoded |-> 0] >>
             /\ ret' = Result("__getitem__", index, "ok", Len(heap) + 1, Len(heap) + 2, None)
             /\ first' = IF first[index] # None THEN first
                         ELSE [first EXCEPT ![index] =
                                 Some([img |-> Len(heap) + 1, lbl |-> Len(heap) + 2,
                                       image |-> r.image, label |-> r.label])]
        ELSE /\ ret' = Result("__getitem__", index, r.status, 0, 0, None)
             /\ UNCHANGED <<heap, first>>
  /\ UNCHANGED <<files, args, self, wk>>

\* the number of decode_input calls made so far
RECURSIVE decode_calls(_)
decode_calls(hp) == IF hp = <<>> THEN 0 ELSE hp[1].decoded + decode_calls(Tail(hp))

\* dataset.decode_input(a) on an array a the caller holds; decoded counts the
\* calls made on that array
Call_decode_input(b) ==
  /\ self # None
  /\ b \in 1..Len(heap)
  /\ heap[b].kind = "image"
  /\ decode_calls(heap) < MaxDecodes
  /\ \E cast \in CastModes :
       LET r == decode_input(heap[b].data, self[1].mean, cast)
       IN /\ heap' = [heap EXCEPT ![b].data = r.buffer, ![b].decoded = @ + 1]
          /\ ret' = Result("decode_input", b, r.status, 0, 0, r.out)
  /\ UNCHANGED <<files, args, self, first, wk>>

\* dataset.decode_target(a) on an array a the caller holds
Call_decode_target(b) ==
  /\ self # None
  /\ b \in 1..Len(heap)
  /\ heap[b].kind = "label"
  /\ LET r == decode_target(heap[b].data, Len(self[1].classes), self[1].train_id_to_color)
     IN /\ heap' = [heap EXCEPT ![b].data = r.buffer]
        /\ ret' = Result("decode_target", b, r.status, 0, 0, r.out)
  /\ UNCHANGED <<files, args, self, first, wk>>

\* the caller overwrites an array it holds
CallerWrites(b) ==
  /\ b \in 1..Len(heap)
  /\ heap' = [heap EXCEPT ![b].data =
                IF heap[b].kind = "image"
                THEN [c \in 1..3 |-> ones_times(heap[b].data[1], MaxVal)]
                ELSE ones_times(heap[b].data, MaxVal)]
  /\ heap' # heap
  /\ ret' = Result("write", b, "ok", 0, 0, None)
  /\ UNCHANGED <<files, args, self, first, wk>>

(* ------------------------ the whole life of an object ------------------ *)
Init ==
  /\ \E lists \in ListPairs,
        dfile \in {"images.txt", "absent.txt"}, lfile \in {"labels.txt", "absent.txt"},
        t \in {"identity", "None"} :
       /\ files = FileSystem(lists[1], lists[2], 0)
       /\ args = Arguments(dfile, lfile, 2, Some(<<1, 2, 3>>),
                           Some(<< <<1, 0>>, <<2, 1>> >>), Some(Palette(3)), t)
  /\ heap = <<>>
  /\ Fresh

Next ==
  \/ Call_init
  \/ Call_len
  \/ Call_num_classes
  \/ Call_collect_image_paths
  \/ \E index \in FetchIndices : Call_getitem(index)
  \/ \E b \in 1..MaxBufs : Call_decode_input(b)
  \/ \E b \in 1..MaxBufs : Call_decode_target(b)
  \/ \E b \in 1..MaxBufs : CallerWrites(b)

Spec == Init /\ [][Next]_vars

(* ------------------------- the label remap alone ---------------------- *)
\* dicts of at most two entries, as the sequence of their (key, value) pairs
IdMaps ==
  {None, Some(<<>>)}
  \cup { Some(<< <<k, v>> >>) : k \in RawIds, v \in 0..MaxId }
  \cup { Some(<< <<kv[1], kv[2]>>, <<kv[3], kv[4]>> >>) :
           kv \in {x \in RawIds \X (0..MaxId) \X RawIds \X (0..MaxId) : x[1] # x[3]} }

InitRemap ==
  /\ \E shift \in 0 .. (MaxId + 1), idmap \in IdMaps :
       /\ files = FileSystem(OneLine, OneLine, shift)
       /\ args = Arguments("images.txt", "labels.txt", 2, None, idmap, None, "identity")
  /\ heap = <<>>
  /\ Fresh

NextRemap ==
  \/ Call_init
  \/ \E index \in FetchIndices : Call_getitem(index)

SpecRemap == InitRemap /\ [][NextRemap]_vars

(* ----------------------------- the decoders ---------------------------- *)
\* label arrays a caller may pass to decode_target: class ids and 255, and
\* arrays that also hold an id beyond the classes or a negative id
TargetSeqs ==
  { [i \in 1..(k + 1) |-> IF i = k + 1 THEN 255 ELSE i - 1] : k \in 1 .. (MaxClasses + 1) }
  \cup { <<0 - 1, 255>> }

CallerLabels == { LabelPicture(ImgH, ImgW, seq, 0) : seq \in TargetSeqs }

\* an image array a caller made itself
CallerImage ==
  [c \in 1..3 |-> [h \in 1..ImgH |-> [w \in 1..ImgW |-> 80 * ((c + h + 2 * w) % 4)]]]

InitDecode ==
  /\ \E n \in 1..MaxClasses, extra \in 0..2, mean \in {None, Some(<<104, 117, 123>>), Some(<<0, 0, 2>>)},
        t \in {"identity", "hflip"}, target \in CallerLabels :
       /\ files = FileSystem(OneLine, OneLine, 0)
       /\ args = Arguments("images.txt", "labels.txt", n, mean, Some(<< <<1, 0>>, <<2, 1>> >>),
                           IF extra = 2 THEN None ELSE Some(Palette(n + extra)), t)
       /\ heap = << [kind |-> "label", data |-> target, decoded |-> 0],
                   [kind |-> "image", data |-> CallerImage, decoded |-> 0] >>
  /\ Fresh

NextDecode ==
  \/ Call_init
  \/ \E index \in FetchIndices : Call_getitem(index)
  \/ \E b \in 1..MaxBufs : Call_decode_input(b)
  \/ \E b \in 1..MaxBufs : Call_decode_target(b)

SpecDecode == InitDecode /\ [][NextDecode]_vars

(* ------------------- fetches running side by side -------------------- *)
\* write x to buffer b of the heap, a new last buffer when b is beyond it
Store(hp, b, x) == IF b > Len(hp) THEN Append(hp, x) ELSE [hp EXCEPT ![b] = x]

copy_reused(hp) ==
  IF \E b \in 1..Len(hp) : hp[b].kind = "image"
  THEN CHOOSE b \in 1..Len(hp) : hp[b].kind = "image"
  ELSE Len(hp) + 1

\* the buffer image.copy() allocates for the returned image (line 97): a new one
copy(hp) == Len(hp) + 1

\* lines 75-82: the names, the two pictures, the transform, the two arrays
W_load(w, index) ==
  /\ wk[w].pc = "idle"
  /\ LET s == self[1]
     IN IF ~list_has(s.data_list, index) \/ ~list_has(s.label_list, index)
        THEN /\ wk' = [wk EXCEPT ![w].pc = "done", ![w].index = index, ![w].status = "IndexError"]
             /\ heap' = heap
        ELSE LET ipath == os_path_join(s.root, s.data_folder, list_get(s.data_list, index))
                 lpath == os_path_join(s.root, s.label_folder, list_get(s.label_list, index))
             IN IF ipath \notin DOMAIN files.images \/ lpath \notin DOMAIN files.labels
                THEN /\ wk' = [wk EXCEPT ![w].pc = "done", ![w].index = index, ![w].status = "IOError"]
                     /\ heap' = heap
                ELSE IF s.transforms = "None"
                THEN /\ wk' = [wk EXCEPT ![w].pc = "done", ![w].index = index, ![w].status = "TypeError"]
                     /\ heap' = heap
                ELSE LET tr == apply_transforms(s.transforms, convert_RGB(files.images[ipath]),
                                                files.labels[lpath])
                     IN /\ heap' = heap \o << [kind |-> "image_array", data |-> tr[1], decoded |-> 0],
                                              [kind |-> "label_array", data |-> tr[2], decoded |-> 0] >>
                        /\ wk' = [wk EXCEPT ![w].pc = "ones", ![w].index = index,
                                            ![w].image = Len(heap) + 1, ![w].label = Len(heap) + 2]
  /\ UNCHANGED <<files, args, self, ret, first>>

\* line 85 and the test of line 86
W_ones(w) ==
  /\ wk[w].pc = "ones"
  /\ LET b == Len(heap) + 1
     IN /\ heap' = Append(heap, [kind |-> "label_copy",
                                 data |-> ones_times(heap[wk[w].label].data, self[1].ignore_label),
                                 decoded |-> 0])
        /\ wk' = [wk EXCEPT ![w].pc = "remap", ![w].label_copy = b,
                            ![w].items = IF truthy(self[1].id_to_train_id)
                                         THEN self[1].id_to_train_id[1] ELSE <<>>]
  /\ UNCHANGED <<files, args, self, ret, first>>

\* lines 87-88: one turn of the loop, or its end
W_remap(w) ==
  /\ wk[w].pc = "remap"
  /\ IF wk[w].items = <<>>
     THEN /\ wk' = [wk EXCEPT ![w].pc = "normalize"]
          /\ heap' = heap
     ELSE /\ heap' = [heap EXCEPT ![wk[w].label_copy].data =
                        remap_pair(heap[wk[w].label].data, @,
                                   wk[w].items[1][1], wk[w].items[1][2])]
          /\ wk' = [wk EXCEPT ![w].items = Tail(@)]
  /\ UNCHANGED <<files, args, self, ret, first>>

\* lines 91-94: the subtraction acts on the image array through the reversed view
W_normalize(w) ==
  /\ wk[w].pc = "normalize"
  /\ heap' = IF self[1].mean = None THEN heap
             ELSE [heap EXCEPT ![wk[w].image].data =
                     reverse_channels(sub_mean(reverse_channels(@), self[1].mean[1]))]
  /\ wk' = [wk EXCEPT ![w].pc = "return"]
  /\ UNCHANGED <<files, args, self, ret, first>>

\* lines 95-97: the two copies that are returned
W_return(w) ==
  /\ wk[w].pc = "return"
  /\ LET b  == copy(heap)
         hp == Store(heap, b, [kind |-> "image",
                               data |-> transpose_201(reverse_channels(heap[wk[w].image].data)),
                               decoded |-> 0])
     IN /\ heap' = Append(hp, [kind |-> "label", data |-> heap[wk[w].label_copy].data,
                                 decoded |-> 0])
        /\ wk' = [wk EXCEPT ![w].pc = "done", ![w].status = "ok",
                            ![w].out_image = b, ![w].out_label = Len(hp) + 1]
  /\ UNCHANGED <<files, args, self, ret, first>>

InitConc ==
  /\ \E lists \in {<<TwoLines, TwoLines>>, <<TwoLines, OneLine>>} :
       /\ files = FileSystem(lists[1], lists[2], 0)
       /\ args = Arguments("images.txt", "labels.txt", 2, Some(<<1, 2, 3>>),
                           Some(<< <<0, 1>>, <<1, 2>> >>), Some(Palette(3)), "identity")
  /\ self = construct(args, files).obj
  /\ heap = <<>>
  /\ ret = NoCall
  /\ first = [i \in FetchIndices |-> None]
  /\ wk = [w \in 1..NWorkers |-> Idle]

NextConc ==
  \/ \E w \in 1..NWorkers : \E index \in 0..MaxIndex : W_load(w, index)
  \/ \E w \in 1..NWorkers : W_ones(w)
  \/ \E w \in 1..NWorkers : W_remap(w)
  \/ \E w \in 1..NWorkers : W_normalize(w)
  \/ \E w \in 1..NWorkers : W_return(w)

SpecConc == InitConc /\ [][NextConc]_vars

(* ------------------------------ claims --------------------------------- *)
Fetched == self # None /\ ret.op = "__getitem__"

\* C2 as claimed: a fetch with an index outside 0 .. length()-1, negative ones
\* included, fails with IndexError and returns no sample.
C2_AsClaimed ==
  (Fetched /\ (ret.arg < 0 \/ ret.arg >= Len(self[1].data_list)))
     => (ret.status = "IndexError" /\ ret.img = 0 /\ ret.lbl = 0)

\* C2 amended: a fetch with index >= length() or index < -length() fails with
\* IndexError and returns no sample; a fetch with an index in -length() .. -1
\* fails with IndexError exactly when the label list has fewer than -index
\* entries, and otherwise takes from each list the entry counted from its
\* end; with lists of equal length it gives what fetch(index + length()) gives.
C2_IndexError ==
  Fetched =>
    LET n == Len(self[1].data_list)
        m == Len(self[1].label_list)
    IN /\ (ret.arg >= n \/ ret.arg < 0 - n)
            => (ret.status = "IndexError" /\ ret.img = 0 /\ ret.lbl = 0)
       /\ (0 - n <= ret.arg /\ ret.arg < 0)
            => (ret.status = "IndexError" <=> m < 0 - ret.arg)
       /\ (0 - n <= ret.arg /\ ret.arg < 0 /\ m = n)
            => LET r == getitem(self[1], files, ret.arg + n)
               IN /\ ret.status = r.status
                  /\ ret.status = "ok" => (heap[ret.img].data = r.image /\ heap[ret.lbl].data = r.label)

\* C2 witness: a fetch at index = length() of a non-empty index has failed
C2_Witness ==
  /\ Fetched
  /\ Len(self[1].data_list) > 0
  /\ ret.arg = Len(self[1].data_list)
  /\ ret.status = "IndexError"

ListFilesExist ==
  args.data_list_file \in DOMAIN files.lists /\ args.label_list_file \in DOMAIN files.lists

\* C3 as claimed: list files of different length construct without error, and
\* in both directions some index in 0 .. length()-1 fails with IndexError.
C3_AsClaimed ==
  /\ (ret.op = "__init__" /\ ListFilesExist) => ret.status = "ok"
  /\ (self # None /\ Len(self[1].data_list) # Len(self[1].label_list))
       => \E i \in 0 .. (Len(self[1].data_list) - 1) :
             getitem(self[1], files, i).status = "IndexError"

\* C3 amended: list files of different length construct without error; a fetch
\* with 0 <= index < length() fails with IndexError exactly when index is at
\* or beyond the length of the label list, so a shorter label list surfaces
\* at fetch time and a longer one never does.
C3_Mismatch ==
  /\ (ret.op = "__init__" /\ ListFilesExist) => (ret.status = "ok" /\ self # None)
  /\ (Fetched /\ 0 <= ret.arg /\ ret.arg < Len(self[1].data_list))
       => (ret.status = "IndexError" <=> ret.arg >= Len(self[1].label_list))

\* C3 witness: the label list is shorter and a fetch inside 0 .. length()-1 failed
C3_Witness ==
  /\ Fetched
  /\ Len(self[1].label_list) < Len(self[1].data_list)
  /\ Len(self[1].label_list) <= ret.arg /\ ret.arg < Len(self[1].data_list)
  /\ ret.status = "IndexError"

\* C4: once constructed, no call changes a field of the object or the two
\* lists, and len() and num_classes keep returning the values of that object.
C4_Immutable ==
  [][self # None =>
       /\ self' = self
       /\ ret'.op = "__len__" => ret'.out = Some(Len(self[1].data_list))
       /\ ret'.op = "num_classes" => ret'.out = Some(Len(self[1].classes))]_vars

\* C4 witness: after two fetches, a write and a failing fetch the object is
\* the one construction made
C4_Witness ==
  /\ Fetched /\ ret.status = "IndexError"
  /\ Len(heap) = 4
  /\ first[0] # None
  /\ heap[first[0][1].img].data # first[0][1].image
  /\ self = construct(args, files).obj

\* C5: a successful fetch returns two new buffers, leaves every older array as
\* it was, and gives the values the first fetch of that index gave, whatever
\* the caller did to the arrays of earlier fetches.
C5_FreshArrays ==
  [][(ret'.op = "__getitem__" /\ ret'.status = "ok") =>
       /\ ret'.img \notin 1..Len(heap) /\ ret'.lbl \notin 1..Len(heap)
       /\ ret'.img # ret'.lbl
       /\ SubSeq(heap', 1, Len(heap)) = heap
       /\ first[ret'.arg] # None =>
            /\ heap'[ret'.img].data = first[ret'.arg][1].image
            /\ heap'[ret'.lbl].data = first[ret'.arg][1].label]_vars

\* C5 witness: an index was fetched again after the caller changed both arrays
\* of its first fetch
C5_Witness ==
  /\ Fetched /\ ret.status = "ok"
  /\ first[ret.arg] # None
  /\ first[ret.arg][1].img # ret.img
  /\ heap[first[ret.arg][1].img].data # first[ret.arg][1].image
  /\ heap[first[ret.arg][1].lbl].data # first[ret.arg][1].label

\* the value a dict of (key, value) pairs gives for key k
DictHas(items, k) == \E i \in 1..Len(items) : items[i][1] = k
DictGet(items, k) == items[CHOOSE i \in 1..Len(items) : items[i][1] = k][2]

\* C1: every pixel of the label a fetch returns is idToTrainId[raw] when the
\* raw value the transform produced there is a key, and 255 otherwise; the raw
\* value alone decides, and a dict that is absent or empty gives 255 everywhere.
C1_Remap ==
  (Fetched /\ ret.status = "ok") =>
    LET raw == transformed_label(self[1], files, ret.arg)
        out == heap[ret.lbl].data
        d   == self[1].id_to_train_id
    IN /\ DOMAIN out = DOMAIN raw
       /\ \A h \in DOMAIN raw :
            /\ DOMAIN out[h] = DOMAIN raw[h]
            /\ \A w \in DOMAIN raw[h] :
                 out[h][w] = IF d # None /\ DictHas(d[1], raw[h][w])
                             THEN DictGet(d[1], raw[h][w]) ELSE 255

\* C1 witness: a fetched pixel whose raw value is a key mapped to a train id
\* that is itself a key with another value, next to a pixel that matches no key
C1_Witness ==
  /\ Fetched /\ ret.status = "ok"
  /\ self[1].id_to_train_id # None
  /\ LET raw == transformed_label(self[1], files, ret.arg)
         out == heap[ret.lbl].data
         d   == self[1].id_to_train_id[1]
     IN /\ \E h \in DOMAIN raw : \E w \in DOMAIN raw[h] :
             /\ DictHas(d, raw[h][w])
             /\ DictHas(d, DictGet(d, raw[h][w]))
             /\ DictGet(d, DictGet(d, raw[h][w])) # DictGet(d, raw[h][w])
             /\ out[h][w] = DictGet(d, raw[h][w])
        /\ \E h \in DOMAIN raw : \E w \in DOMAIN raw[h] :
             ~DictHas(d, raw[h][w]) /\ out[h][w] = 255

\* C7: with mean configured, decode_input of the image a fetch just returned
\* is the H x W x 3 picture the transform produced, value by value.
C7_RoundTrip ==
  [][(Fetched /\ ret.status = "ok" /\ self[1].mean # None
        /\ ret'.op = "decode_input" /\ ret'.arg = ret.img)
      => /\ ret'.status = "ok"
         /\ ret'.out = Some(transformed_image(self[1], files, ret.arg))]_vars

\* C7 witness: decode_input has returned the flipped colour picture of a fetch
C7_Witness ==
  /\ self # None
  /\ ret.op = "decode_input" /\ ret.status = "ok" /\ ret.arg > 2
  /\ self[1].transforms = "hflip"
  /\ ret.out = Some(transformed_image(self[1], files, 0))
  /\ ret.out[1][1][1][1] # ret.out[1][1][1][3]

InClasses(target, n) ==
  \A h \in DOMAIN target : \A w \in DOMAIN target[h] :
     target[h][w] = 255 \/ (0 <= target[h][w] /\ target[h][w] < n)

\* C8: decode_target of an array of class ids and 255, with a colour table of
\* at least num_classes + 1 entries, succeeds and gives table[v] for a class
\* id v and table[num_classes] for 255.
C8_DecodeTarget ==
  (self # None /\ ret.op = "decode_target"
     /\ InClasses(heap[ret.arg].data, Len(self[1].classes))
     /\ self[1].train_id_to_color # None
     /\ Len(self[1].train_id_to_color[1]) >= Len(self[1].classes) + 1)
  => /\ ret.status = "ok"
     /\ LET target == heap[ret.arg].data
            table  == self[1].train_id_to_color[1]
            n      == Len(self[1].classes)
        IN \A h \in DOMAIN target : \A w \in DOMAIN target[h] :
              ret.out[1][h][w] = IF target[h][w] = 255 THEN table[n + 1]
                                 ELSE table[target[h][w] + 1]

\* C8 witness: an array holding a class id and 255 has been decoded
C8_Witness ==
  /\ self # None /\ ret.op = "decode_target" /\ ret.status = "ok"
  /\ InClasses(heap[ret.arg].data, Len(self[1].classes))
  /\ Len(self[1].train_id_to_color[1]) = Len(self[1].classes) + 1
  /\ \E h \in DOMAIN heap[ret.arg].data : \E w \in DOMAIN heap[ret.arg].data[h] :
        heap[ret.arg].data[h][w] = 255
  /\ \E h \in DOMAIN heap[ret.arg].data : \E w \in DOMAIN heap[ret.arg].data[h] :
        heap[ret.arg].data[h][w] = Len(self[1].classes) - 1

\* C9: decode_target, succeeding or failing, leaves the caller's array (and
\* every other array) as it was.
C9_TargetKept ==
  [][ret'.op = "decode_target" => heap' = heap]_vars

\* C9 witness: decode_target failed with an out-of-range index on an array
\* that holds 255
C9_Witness ==
  /\ ret.op = "decode_target" /\ ret.status = "IndexError"
  /\ self[1].train_id_to_color # None
  /\ \E h \in DOMAIN heap[ret.arg].data : \E w \in DOMAIN heap[ret.arg].data[h] :
        heap[ret.arg].data[h][w] = 255

\* C10 as claimed: a successful decode_input adds mean[c] to element [c, h, w]
\* of the caller's array, and a second call on the same array returns the
\* first picture offset by mean once more.
C10_AsClaimed ==
  [][(ret'.op = "decode_input" /\ ret'.status = "ok") =>
       LET b == ret'.arg
           m == self[1].mean[1]
       IN /\ \A c \in 1..3 : \A h \in DOMAIN heap[b].data[c] : \A w \in DOMAIN heap[b].data[c][h] :
               heap'[b].data[c][h][w] = heap[b].data[c][h][w] + m[c]
          /\ (ret.op = "decode_input" /\ ret.status = "ok" /\ ret.arg = b) =>
               \A h \in DOMAIN ret.out[1] : \A w \in DOMAIN ret.out[1][h] : \A c \in 1..3 :
                  ret'.out[1][h][w][c] = ret.out[1][h][w][c] + m[4 - c]]_vars

\* C10 amended: a successful decode_input adds mean[c] to element [c, h, w] of
\* the caller's array, and the picture it returns holds each sum as a sample
\* of 0 .. 255, exactly when the sum lies there.  A second call on the same
\* array works on sums that are mean larger: where both sums lie in 0 .. 255
\* its picture is the first one plus mean (different wherever mean is not 0);
\* where the first sum lies in 0 .. 255 and the second is beyond 255, its
\* picture is less than the first one plus mean.
C10_InputChanged ==
  [][(ret'.op = "decode_input" /\ ret'.status = "ok") =>
       LET b == ret'.arg
           m == self[1].mean[1]
       IN /\ \A c \in 1..3 : \A h \in DOMAIN heap[b].data[c] : \A w \in DOMAIN heap[b].data[c][h] :
               /\ heap'[b].data[c][h][w] = heap[b].data[c][h][w] + m[c]
               /\ ret'.out[1][h][w][4 - c] \in 0..255
               /\ heap'[b].data[c][h][w] \in 0..255
                    => ret'.out[1][h][w][4 - c] = heap'[b].data[c][h][w]
          /\ (ret.op = "decode_input" /\ ret.status = "ok" /\ ret.arg = b) =>
               \A h \in DOMAIN ret.out[1] : \A w \in DOMAIN ret.out[1][h] : \A c \in 1..3 :
                  LET sum1 == heap[b].data[4 - c][h][w]
                      sum2 == heap'[b].data[4 - c][h][w]
                  IN /\ (sum1 \in 0..255 /\ sum2 \in 0..255) =>
                          /\ ret'.out[1][h][w][c] = ret.out[1][h][w][c] + m[4 - c]
                          /\ m[4 - c] # 0 => ret'.out[1][h][w][c] # ret.out[1][h][w][c]
                     /\ (sum1 \in 0..255 /\ sum2 > 255) =>
                          ret'.out[1][h][w][c] < ret.out[1][h][w][c] + m[4 - c]]_vars

\* C10 witness: decode_input ran twice on one array; at one position the second
\* sum left 0 .. 255 where the first lay in it, at another both lay in it
C10_Witness ==
  /\ self # None /\ self[1].mean # None
  /\ ret.op = "decode_input" /\ ret.status = "ok"
  /\ heap[ret.arg].decoded = 2
  /\ LET a == heap[ret.arg].data
         m == self[1].mean[1]
     IN /\ \E c \in 1..3 : \E h \in DOMAIN a[c] : \E w \in DOMAIN a[c][h] :
             /\ a[c][h][w] > 255 /\ a[c][h][w] - m[c] \in 0..255
             /\ ret.out[1][h][w][4 - c] # a[c][h][w]
        /\ \E c \in 1..3 : \E h \in DOMAIN a[c] : \E w \in DOMAIN a[c][h] :
             /\ m[c] # 0
             /\ a[c][h][w] \in 0..255 /\ a[c][h][w] - m[c] \in 0..255
             /\ ret.out[1][h][w][4 - c] = a[c][h][w]

\* C6: whatever the interleaving, a worker that has finished its fetch holds
\* what that fetch gives when run alone, its arrays keep those values while
\* the other workers run, and the object stays as construction made it.
C6_Reentrant ==
  /\ self = construct(args, files).obj
  /\ \A w \in 1..NWorkers :
       wk[w].pc = "done" =>
         LET r == getitem(self[1], files, wk[w].index)
         IN /\ wk[w].status = r.status
            /\ r.status = "ok" =>
                 /\ heap[wk[w].out_image].data = r.image
                 /\ heap[wk[w].out_label].data = r.label

\* C6 witness: two workers fetched the same index, their steps interleaved
\* (the second began before the first returned), and both have finished
C6_Witness ==
  /\ wk[1].pc = "done" /\ wk[1].status = "ok"
  /\ wk[2].pc = "done" /\ wk[2].status = "ok"
  /\ wk[1].index = wk[2].index
  /\ wk[2].image < wk[1].out_image
  /\ wk[1].image < wk[2].out_image

====
